---- MODULE Spec2Model ----
(***************************************************************************)
(* Model of collect_gui.py: the collector routine                          *)
(* collect_files_content_gui and the Tk shell FileCollectorApp that runs   *)
(* it on a background thread.                                              *)
(***************************************************************************)
EXTENDS Integers, Sequences, FiniteSets, TLC

(***************************************************************************)
(* Double-precision arithmetic of line 61,                                 *)
(*     progress_value = int((processed_files / total_files) * 100)         *)
(* A double is a 53-bit significand (a sequence of bits, most significant  *)
(* first) and the exponent of its last bit.  Division and multiplication   *)
(* round to nearest, ties to even, as IEEE 754 does; int() truncates.      *)
(***************************************************************************)
MantissaBits == 53

Last(s) == s[Len(s)]

Front(s) == SubSeq(s, 1, Len(s) - 1)

Zeros(n) == [i \in 1..n |-> 0]

AnyOne(bits) == \E i \in 1..Len(bits) : bits[i] = 1

AllOnes(bits) == \A i \in 1..Len(bits) : bits[i] = 1

RECURSIVE BitsToInt(_)
BitsToInt(bits) == IF bits = << >> THEN 0 ELSE 2 * BitsToInt(Front(bits)) + Last(bits)

\* The number of doublings that bring a up to at least b (a, b > 0).
RECURSIVE LeadShift(_, _)
LeadShift(a, b) == IF a >= b THEN 0 ELSE 1 + LeadShift(2 * a, b)

RECURSIVE Pow2(_)
Pow2(k) == IF k = 0 THEN 1 ELSE 2 * Pow2(k - 1)

\* 2^j mod b
RECURSIVE PowMod2(_, _)
PowMod2(j, b) ==
    IF j = 0 THEN 1 % b
    ELSE LET h == PowMod2(j \div 2, b) IN (h * h * (1 + (j % 2))) % b

\* Long division of rem / b (0 <= rem < b): the remainder left after j quotient
\* bits, and the j-th quotient bit.
RemAfter(rem, b, j) == (rem * PowMod2(j, b)) % b

QuotBit(rem, b, j) == IF 2 * RemAfter(rem, b, j - 1) >= b THEN 1 ELSE 0

\* bits + 1 where bits are not all ones: a bit flips when all the bits after it
\* are ones.
IncBits(bits) ==
    [i \in 1..Len(bits) |->
        IF \A j \in (i + 1)..Len(bits) : bits[j] = 1 THEN 1 - bits[i] ELSE bits[i]]

\* Round to nearest, ties to even: kept is the significand, guard the first
\* dropped bit, sticky whether anything nonzero follows it; exp is the exponent
\* of the last kept bit.
RoundNearestEven(kept, guard, sticky, exp) ==
    IF guard = 1 /\ (sticky \/ Last(kept) = 1)
    THEN IF AllOnes(kept)
         THEN [m |-> <<1>> \o Zeros(Len(kept) - 1), e |-> exp + 1]
         ELSE [m |-> IncBits(kept), e |-> exp]
    ELSE [m |-> kept, e |-> exp]

\* float(a) / float(b) for integers 1 <= a <= b: the leading one, then the
\* quotient bits of what is left.
FloatDiv(a, b) ==
    LET k == LeadShift(a, b)
        rem == a * Pow2(k) - b
        m == [j \in 1..MantissaBits |-> IF j = 1 THEN 1 ELSE QuotBit(rem, b, j - 1)]
    IN RoundNearestEven(m, QuotBit(rem, b, MantissaBits), RemAfter(rem, b, MantissaBits) # 0,
                        0 - k - (MantissaBits - 1))

\* Exact multiplication works on limbs of LimbBits bits, least significant first.
LimbBits == 13

LimbBase == Pow2(LimbBits)

Max(a, b) == IF a >= b THEN a ELSE b

Limbs(bits) ==
    [i \in 1..((Len(bits) + LimbBits - 1) \div LimbBits) |->
        BitsToInt(SubSeq(bits, Max(1, Len(bits) - LimbBits * i + 1),
                         Len(bits) - LimbBits * (i - 1)))]

\* limbs * c + carry: one limb more than limbs has.
RECURSIVE MulLimbs(_, _, _)
MulLimbs(limbs, c, carry) ==
    IF limbs = << >> THEN <<carry>>
    ELSE <<(Head(limbs) * c + carry) % LimbBase>>
         \o MulLimbs(Tail(limbs), c, (Head(limbs) * c + carry) \div LimbBase)

\* The bits of a number given by its limbs, without leading zeros.
LimbsToBits(limbs) ==
    LET width == LimbBits * Len(limbs)
        all == [i \in 1..width |->
                   (limbs[(width - i) \div LimbBits + 1] \div Pow2((width - i) % LimbBits)) % 2]
        first == CHOOSE i \in 1..width : all[i] = 1 /\ \A j \in 1..(i - 1) : all[j] = 0
    IN SubSeq(all, first, width)

\* x * float(c) for a small positive integer c.
FloatMulInt(x, c) ==
    LET p == LimbsToBits(MulLimbs(Limbs(x.m), c, 0))
        extra == Len(p) - MantissaBits
    IN IF extra = 0 THEN [m |-> p, e |-> x.e]
       ELSE RoundNearestEven(SubSeq(p, 1, MantissaBits), p[MantissaBits + 1],
                             AnyOne(SubSeq(p, MantissaBits + 2, Len(p))),
                             x.e + extra)

\* int(x) for a double x >= 0 below 2^31: the bits left of the binary point.
FloatToInt(x) ==
    IF x.e >= 0 THEN BitsToInt(x.m \o Zeros(x.e))
    ELSE IF MantissaBits + x.e <= 0 THEN 0
    ELSE BitsToInt(SubSeq(x.m, 1, MantissaBits + x.e))

\* The percentage rounded to the nearest integer instead of truncated.
ProgressValueRounded(processed, total) == (200 * processed + total) \div (2 * total)

\* line 61
ProgressValue(processed, total) == FloatToInt(FloatMulInt(FloatDiv(processed, total), 100))

(***************************************************************************)
(* Text.  A string the code splits, strips or matches is a sequence of     *)
(* characters.                                                             *)
(***************************************************************************)
StartsWith(s, prefix) ==
    Len(prefix) <= Len(s) /\ SubSeq(s, 1, Len(prefix)) = prefix

EndsWith(s, suffix) ==
    Len(suffix) <= Len(s) /\ SubSeq(s, Len(s) - Len(suffix) + 1, Len(s)) = suffix

\* sub in s
Contains(s, sub) ==
    \E i \in 1..(Len(s) - Len(sub) + 1) : SubSeq(s, i, i + Len(sub) - 1) = sub

RECURSIVE LStrip(_)
LStrip(s) == IF s # << >> /\ Head(s) = " " THEN LStrip(Tail(s)) ELSE s

RECURSIVE RStrip(_)
RStrip(s) == IF s # << >> /\ Last(s) = " " THEN RStrip(Front(s)) ELSE s

\* str.strip()
Strip(s) == RStrip(LStrip(s))

\* str.split(sep) for a one-character sep: never an empty list.
RECURSIVE Split(_, _)
Split(s, sep) ==
    IF s = << >> THEN << << >> >>
    ELSE LET rest == Split(Tail(s), sep)
         IN IF Head(s) = sep THEN << << >> >> \o rest
            ELSE << <<Head(s)>> \o Head(rest) >> \o Tail(rest)

RECURSIVE MapStrip(_)
MapStrip(tokens) ==
    IF tokens = << >> THEN << >> ELSE <<Strip(Head(tokens))>> \o MapStrip(Tail(tokens))

NonEmpty(tok) == tok # << >>

\* line 30: [ext.strip() for ext in extensions_str.split('|') if ext.strip()]
Extensions(str) == SelectSeq(MapStrip(Split(str, "|")), NonEmpty)

RECURSIVE Dotted(_)
Dotted(exts) ==
    IF exts = << >> THEN << >>
    ELSE << IF StartsWith(Head(exts), <<".">>) THEN Head(exts) ELSE <<".">> \o Head(exts) >>
         \o Dotted(Tail(exts))

\* line 35: tuple(f".{ext}" if not ext.startswith('.') else ext for ext in extensions)
TargetExtensions(str) == Dotted(Extensions(str))

\* line 45: filename.endswith(target_extensions), a tuple of suffixes
EndsWithAny(filename, suffixes) ==
    \E i \in 1..Len(suffixes) : EndsWith(filename, suffixes[i])

ErrorWord == <<"E", "r", "r", "o", "r">>

(***************************************************************************)
(* The file system the runs work on.  R is the source directory; its walk  *)
(* (os.walk, top-down) lists the files of R, then those of R/sub.          *)
(* R/result.txt is the shell's default output file (lines 182, 189, 211):  *)
(* it lies inside the tree that is scanned.                                *)
(***************************************************************************)
NoFile == <<[t |-> "absent", rel |-> "", detail |-> ""]>>

Piece(t, rel, detail) == [t |-> t, rel |-> rel, detail |-> detail]

\* The text of an input file, as one piece of content.
TextOf(rel) == <<Piece("text", rel, "")>>

Dirs == {"R", "out", "ro"}

TreeWalk ==
    << [path |-> "R/a.txt", rel |-> "a.txt", filename |-> <<"a", ".", "t", "x", "t">>],
       [path |-> "R/c.cs", rel |-> "c.cs", filename |-> <<"c", ".", "c", "s">>],
       [path |-> "R/result.txt", rel |-> "result.txt",
        filename |-> <<"r", "e", "s", "u", "l", "t", ".", "t", "x", "t">>],
       [path |-> "R/sub/b.txt", rel |-> "sub/b.txt", filename |-> <<"b", ".", "t", "x", "t">>] >>

FilePaths == {"R/a.txt", "R/c.cs", "R/result.txt", "R/sub/b.txt", "out/code.txt", "ro/code.txt"}

\* Files whose bytes are not valid UTF-8: open(..., encoding='utf-8-sig').read()
\* raises UnicodeDecodeError on them.
Latin1Files == {"R/sub/b.txt"}

\* Paths open(output_file, 'w') fails on (a read-only place).
Unwritable == {"ro/code.txt"}

\* os.path.isdir
IsDir(d) == d \in Dirs

\* The candidate values of the three input fields.
RootDirs == {"R", "missing"}

OutputFiles == {"R/result.txt", "out/code.txt", "ro/code.txt"}

ExtensionStrings ==
    { <<"t", "x", "t">>,
      <<".", "t", "x", "t", "|", " ", "c", "s", " ">>,
      <<"c", "s">>,
      <<"p", "y">>,
      <<" ", "|", " ">>,
      << >> }

InitialDisks ==
    { [p \in FilePaths |->
          IF p \in {"R/a.txt", "R/c.cs", "R/sub/b.txt"} THEN TextOf(p)
          ELSE IF p = "R/result.txt" THEN old
          ELSE NoFile] : old \in {NoFile, TextOf("R/result.txt")} }

\* lines 42-46: the pre-scan, over the files that exist when it runs
FilesToProcess(fs, suffixes) ==
    LET Selected(e) == fs[e.path] # NoFile /\ EndsWithAny(e.filename, suffixes)
    IN SelectSeq(TreeWalk, Selected)

(***************************************************************************)
(* State.                                                                  *)
(***************************************************************************)
VARIABLES
    root_dir, output_file, extensions_str,   \* the arguments of collect_files_content_gui
    target_extensions, files_to_process, total_files, processed_files,
    content,        \* the text read from the current file
    fallback,       \* TRUE inside the handler of UnicodeDecodeError (lines 74-84)
    caught,         \* the exception a per-file handler caught, and which handler
    pc,             \* the position of the thread that runs the collector
    outfile_open,   \* the `with open(output_file, 'w')` block is entered
    written,        \* what outfile.write has accepted in this run
    disk,           \* the content of every file
    disk_at_start,  \* disk when the run started
    write_faults, read_faults,   \* I/O failures so far
    events,         \* the run's callbacks, reads and writes, in order
    start_button, browse_dir_button, browse_output_button,
    progress_bar, log_text,
    after_queue,    \* callbacks posted with master.after(0, ...)
    active_workers, \* threads inside _run_collection_task
    notification,   \* the message box shown last ("none" since a run started)
    config,         \* the content of CONFIG_FILE
    runs,           \* runs started so far
    widget_mutators \* the threads that have changed log_text or progress_bar

argvars == <<root_dir, output_file, extensions_str>>

scanvars == <<target_extensions, files_to_process, total_files>>

filevars == <<content, fallback, caught>>

outvars == <<outfile_open, written, disk>>

faultvars == <<write_faults, read_faults>>

callbackvars == <<events, progress_bar, log_text, widget_mutators>>

shellvars == <<start_button, browse_dir_button, browse_output_button, after_queue,
               active_workers, notification, config, runs>>

vars == <<argvars, scanvars, processed_files, filevars, pc, outvars, disk_at_start,
          faultvars, callbackvars, shellvars>>

\* Bounds of the model.
MaxWriteFaults == 1

MaxReadFaults == 1

MaxRuns == 2

MaxTotal == 50

(***************************************************************************)
(* Events and callbacks.                                                   *)
(***************************************************************************)
Ev(ev, n, kind, rel, detail) == [ev |-> ev, n |-> n, kind |-> kind, rel |-> rel, detail |-> detail]

ProgressEv(value) == Ev("progress", value, "", "", "")

LogEv(kind, rel, detail) == Ev("log", 0, kind, rel, detail)

WriteEv(kind, rel) == Ev("write", 0, kind, rel, "")

WriteFailedEv(kind, rel) == Ev("write_failed", 0, kind, rel, "")

ReadEv(result, rel) == Ev("read", 0, result, rel, "")

IsProgress(e) == e.ev = "progress"

IsLog(e) == e.ev = "log"

\* str(e) of the exceptions the runs meet, and whether "Error" occurs in it.
PermissionDenied == "[Errno 13] Permission denied"

NoSpaceLeft == "[Errno 28] No space left on device"

FaultDetails == {"maximum recursion depth exceeded", "[WinError 8] Not enough memory"}

DetailHasError(detail) == detail = "[WinError 8] Not enough memory"

RelHasError(rel) ==
    \E i \in 1..Len(TreeWalk) :
        TreeWalk[i].rel = rel /\ Contains(TreeWalk[i].filename, ErrorWord)

\* line 295: "Error" in <the text of a log line>.  The messages of lines 23, 32,
\* 37 and 95 hold the word themselves; the others (lines 52, 68, 80, 84, 88, 92,
\* 265, 282) only through what they quote.
LineHasError(e) ==
    \/ e.kind \in {"dir_not_found", "no_extensions", "write_error"}
    \/ DetailHasError(e.detail)
    \/ RelHasError(e.rel)

RECURSIVE LastProgress(_, _)
LastProgress(evs, default) ==
    IF evs = << >> THEN default
    ELSE IF IsProgress(Last(evs)) THEN Last(evs).n
    ELSE LastProgress(Front(evs), default)

\* update_progress, lines 229-235
BarValue(value) == IF value = -1 THEN 0 ELSE value

\* log_message (lines 223-227) and update_progress run in the thread that calls
\* them: evs are the events of one step, in order.
Callbacks(thread, evs) ==
    /\ events' = events \o evs
    /\ log_text' = log_text \o SelectSeq(evs, IsLog)
    /\ progress_bar' =
          IF SelectSeq(evs, IsProgress) = << >> THEN progress_bar
          ELSE BarValue(LastProgress(evs, 0))
    /\ widget_mutators' =
          IF SelectSeq(evs, IsLog) = << >> /\ SelectSeq(evs, IsProgress) = << >>
          THEN widget_mutators
          ELSE widget_mutators \cup {thread}

(***************************************************************************)
(* collect_files_content_gui                                               *)
(***************************************************************************)
CurrentFile == files_to_process[processed_files]

\* Lines 22-25 without the return of line 25.
CheckRootDirNoReturn ==
    /\ pc = "check_root"
    /\ IF ~IsDir(root_dir)
       THEN Callbacks("worker", <<LogEv("dir_not_found", "", ""), ProgressEv(-1)>>)
       ELSE UNCHANGED callbackvars
    /\ pc' = "parse"
    /\ UNCHANGED <<argvars, scanvars, processed_files, filevars, outvars, disk_at_start,
                   faultvars, shellvars>>

\* lines 22-25
CheckRootDir ==
    /\ pc = "check_root"
    /\ IF ~IsDir(root_dir)
       THEN /\ Callbacks("worker", <<LogEv("dir_not_found", "", ""), ProgressEv(-1)>>)
            /\ pc' = "returned"
       ELSE /\ pc' = "parse"
            /\ UNCHANGED callbackvars
    /\ UNCHANGED <<argvars, scanvars, processed_files, filevars, outvars, disk_at_start,
                   faultvars, shellvars>>

\* lines 27-39
ParseExtensions ==
    /\ pc = "parse"
    /\ IF Extensions(extensions_str) = << >>
       THEN /\ Callbacks("worker", <<LogEv("no_extensions", "", ""), ProgressEv(-1)>>)
            /\ pc' = "returned"
            /\ UNCHANGED target_extensions
       ELSE /\ target_extensions' = TargetExtensions(extensions_str)
            /\ pc' = "prescan"
            /\ UNCHANGED callbackvars
    /\ UNCHANGED <<argvars, files_to_process, total_files, processed_files, filevars,
                   outvars, disk_at_start, faultvars, shellvars>>

\* lines 41-54
PreScan ==
    /\ pc = "prescan"
    /\ files_to_process' = FilesToProcess(disk, target_extensions)
    /\ total_files' = Len(files_to_process')
    /\ processed_files' = 0
    /\ IF total_files' = 0
       THEN /\ Callbacks("worker", <<LogEv("no_files", "", ""), ProgressEv(100)>>)
            /\ pc' = "returned"
       ELSE /\ pc' = "open"
            /\ UNCHANGED callbackvars
    /\ UNCHANGED <<argvars, target_extensions, filevars, outvars, disk_at_start,
                   faultvars, shellvars>>

\* The handler of lines 94-96 placed inside the loop: the run goes on after it.
WriteErrorHandlerContinue(evs) ==
    /\ Callbacks("worker", evs \o <<LogEv("write_error", "", NoSpaceLeft), ProgressEv(-1)>>)
    /\ pc' = "loop"

\* lines 94-96, entered with the exception that left the `with` block (or the open
\* itself): evs are the events of the step up to the failure.
WriteErrorHandler(evs) ==
    /\ Callbacks("worker", evs \o <<LogEv("write_error", "", NoSpaceLeft), ProgressEv(-1)>>)
    /\ pc' = "returned"

\* Leaving the `with` block, by its end or by an exception, closes the file: what
\* was written reaches the disk.
CloseOutput(text) ==
    /\ outfile_open' = FALSE
    /\ disk' = [disk EXCEPT ![output_file] = text]

\* lines 57-58
OpenOutput ==
    /\ pc = "open"
    /\ IF output_file \in Unwritable
       THEN /\ Callbacks("worker", <<LogEv("write_error", "", PermissionDenied), ProgressEv(-1)>>)
            /\ pc' = "returned"
            /\ UNCHANGED outvars
       ELSE /\ outfile_open' = TRUE
            /\ written' = << >>
            /\ disk' = [disk EXCEPT ![output_file] = << >>]
            /\ pc' = "loop"
            /\ UNCHANGED callbackvars
    /\ UNCHANGED <<argvars, scanvars, processed_files, filevars, disk_at_start,
                   faultvars, shellvars>>

\* lines 59-62
BeginFile ==
    /\ pc = "loop"
    /\ processed_files < total_files
    /\ processed_files' = processed_files + 1
    /\ Callbacks("worker", <<ProgressEv(ProgressValue(processed_files + 1, total_files))>>)
    /\ pc' = "header"
    /\ UNCHANGED <<argvars, scanvars, filevars, outvars, disk_at_start, faultvars, shellvars>>

\* lines 59 (the loop ends), 92-93
FinishRun ==
    /\ pc = "loop"
    /\ processed_files = total_files
    /\ CloseOutput(written)
    /\ Callbacks("worker", <<LogEv("success", "", ""), ProgressEv(100)>>)
    /\ pc' = "returned"
    /\ UNCHANGED <<argvars, scanvars, processed_files, filevars, written, disk_at_start,
                   faultvars, shellvars>>

\* One outfile.write(text) at the outer level of the `with` block: it succeeds and
\* the step goes on with `after` and to `next`, or it raises and lines 94-96 run.
OuterWrite(kind, text, after, next) ==
    \/ /\ written' = written \o text
       /\ Callbacks("worker", <<WriteEv(kind, CurrentFile.rel)>> \o after)
       /\ pc' = next
       /\ UNCHANGED <<outfile_open, disk, faultvars>>
    \/ /\ write_faults < MaxWriteFaults
       /\ write_faults' = write_faults + 1
       /\ WriteErrorHandler(<<WriteFailedEv(kind, CurrentFile.rel)>>)
       /\ CloseOutput(written)
       /\ UNCHANGED <<written, read_faults>>

\* Lines 64-68 with the log call of line 68 before the write of line 67.
WriteHeaderLogFirst ==
    /\ pc = "header"
    /\ \/ /\ written' = written \o <<Piece("header", CurrentFile.rel, "")>>
          /\ Callbacks("worker", <<LogEv("processing", CurrentFile.rel, ""),
                                   WriteEv("header", CurrentFile.rel)>>)
          /\ pc' = "read_utf8"
          /\ UNCHANGED <<outfile_open, disk, faultvars>>
       \/ /\ write_faults < MaxWriteFaults
          /\ write_faults' = write_faults + 1
          /\ WriteErrorHandler(<<LogEv("processing", CurrentFile.rel, ""),
                                 WriteFailedEv("header", CurrentFile.rel)>>)
          /\ CloseOutput(written)
          /\ UNCHANGED <<written, read_faults>>
    /\ UNCHANGED <<argvars, scanvars, processed_files, filevars, disk_at_start, shellvars>>

\* lines 64-68
WriteHeader ==
    /\ pc = "header"
    /\ OuterWrite("header", <<Piece("header", CurrentFile.rel, "")>>,
                  <<LogEv("processing", CurrentFile.rel, "")>>, "read_utf8")
    /\ UNCHANGED <<argvars, scanvars, processed_files, filevars, disk_at_start, shellvars>>

\* What open(path).read() can return.  The output file, while it is open for
\* writing, holds on disk whatever part of the written text has been flushed so
\* far: any prefix that extends what was seen on disk before.
Readable(path) ==
    IF path = output_file /\ outfile_open
    THEN {SubSeq(written, 1, n) : n \in Len(disk[path])..Len(written)}
    ELSE {disk[path]}

\* lines 70-72, and the handlers of lines 74 and 85 for what the read raises
ReadUtf8 ==
    /\ pc = "read_utf8"
    /\ \/ /\ CurrentFile.path \notin Latin1Files
          /\ \E text \in Readable(CurrentFile.path) :
                /\ content' = text
                /\ disk' = [disk EXCEPT ![CurrentFile.path] = text]
          /\ fallback' = FALSE
          /\ pc' = "content"
          /\ Callbacks("worker", <<ReadEv("utf8", CurrentFile.rel)>>)
          /\ UNCHANGED <<caught, read_faults>>
       \/ /\ CurrentFile.path \in Latin1Files
          /\ fallback' = TRUE
          /\ pc' = "read_latin1"
          /\ Callbacks("worker", <<ReadEv("decode_error", CurrentFile.rel)>>)
          /\ UNCHANGED <<content, caught, disk, read_faults>>
       \/ /\ read_faults < MaxReadFaults
          /\ read_faults' = read_faults + 1
          /\ caught' = [handler |-> "process", detail |-> PermissionDenied]
          /\ pc' = "marker"
          /\ Callbacks("worker", <<ReadEv("failed", CurrentFile.rel)>>)
          /\ UNCHANGED <<content, fallback, disk>>
    /\ UNCHANGED <<argvars, scanvars, processed_files, outfile_open, written,
                   disk_at_start, write_faults, shellvars>>

\* lines 75-77, and the handler of line 81 for what the read raises
ReadLatin1 ==
    /\ pc = "read_latin1"
    /\ \/ /\ \E text \in Readable(CurrentFile.path) :
                /\ content' = text
                /\ disk' = [disk EXCEPT ![CurrentFile.path] = text]
          /\ pc' = "content"
          /\ Callbacks("worker", <<ReadEv("latin1", CurrentFile.rel)>>)
          /\ UNCHANGED <<caught, read_faults>>
       \/ /\ read_faults < MaxReadFaults
          /\ read_faults' = read_faults + 1
          /\ caught' = [handler |-> "read", detail |-> PermissionDenied]
          /\ pc' = "marker"
          /\ Callbacks("worker", <<ReadEv("failed", CurrentFile.rel)>>)
          /\ UNCHANGED <<content, disk>>
    /\ UNCHANGED <<argvars, scanvars, processed_files, fallback, outfile_open, written,
                   disk_at_start, write_faults, shellvars>>

\* One outfile.write(text) inside a per-file try block: what it raises is caught
\* by the handler of line 85 (utf-8 branch) or of line 81 (latin-1 branch).
InnerWrite(kind, text, after, next) ==
    \/ /\ written' = written \o text
       /\ Callbacks("worker", <<WriteEv(kind, CurrentFile.rel)>> \o after)
       /\ pc' = next
       /\ UNCHANGED <<caught, faultvars>>
    \/ /\ write_faults < MaxWriteFaults
       /\ write_faults' = write_faults + 1
       /\ caught' = [handler |-> IF fallback THEN "read" ELSE "process", detail |-> NoSpaceLeft]
       /\ pc' = "marker"
       /\ Callbacks("worker", <<WriteFailedEv(kind, CurrentFile.rel)>>)
       /\ UNCHANGED <<written, read_faults>>

\* line 73 (utf-8 branch) or line 78 (latin-1 branch)
WriteContent ==
    /\ pc = "content"
    /\ InnerWrite("content", content, << >>, IF fallback THEN "warning" ELSE "separator")
    /\ UNCHANGED <<argvars, scanvars, processed_files, content, fallback, outfile_open,
                   disk, disk_at_start, shellvars>>

\* lines 79-80
WriteWarning ==
    /\ pc = "warning"
    /\ InnerWrite("warning", <<Piece("warning", "", "")>>,
                  <<LogEv("warning_latin1", CurrentFile.rel, "")>>, "separator")
    /\ UNCHANGED <<argvars, scanvars, processed_files, content, fallback, outfile_open,
                   disk, disk_at_start, shellvars>>

\* lines 82-84 (handler "read") and 86-88 (handler "process"): a write that
\* raises here is outside every per-file try block.
WriteMarker ==
    /\ pc = "marker"
    /\ LET kind == IF caught.handler = "read" THEN "error_read" ELSE "error_process"
           line == IF caught.handler = "read" THEN "read_error" ELSE "processing_error"
       IN OuterWrite(kind, <<Piece(kind, CurrentFile.rel, caught.detail)>>,
                     <<LogEv(line, CurrentFile.rel, caught.detail)>>, "separator")
    /\ UNCHANGED <<argvars, scanvars, processed_files, filevars, disk_at_start, shellvars>>

\* line 90
WriteSeparator ==
    /\ pc = "separator"
    /\ OuterWrite("sep", <<Piece("sep", "", "")>>, << >>, "loop")
    /\ UNCHANGED <<argvars, scanvars, processed_files, filevars, disk_at_start, shellvars>>

Collect ==
    \/ CheckRootDir
    \/ ParseExtensions
    \/ PreScan
    \/ OpenOutput
    \/ BeginFile
    \/ WriteHeader
    \/ ReadUtf8
    \/ ReadLatin1
    \/ WriteContent
    \/ WriteWarning
    \/ WriteMarker
    \/ WriteSeparator
    \/ FinishRun

\* The state of a thread that is about to call the collector.
NoCaught == [handler |-> "", detail |-> ""]

Entering ==
    /\ target_extensions = << >>
    /\ files_to_process = << >>
    /\ total_files = 0
    /\ processed_files = 0
    /\ content = << >>
    /\ fallback = FALSE
    /\ caught = NoCaught
    /\ outfile_open = FALSE
    /\ written = << >>
    /\ write_faults = 0
    /\ read_faults = 0
    /\ events = << >>

\* One call of the collector, with any arguments, from a shell that has just
\* started it (lines 264-276).
Init ==
    /\ root_dir \in RootDirs
    /\ output_file \in OutputFiles
    /\ extensions_str \in ExtensionStrings
    /\ disk \in InitialDisks
    /\ disk_at_start = disk
    /\ pc = "check_root"
    /\ Entering
    /\ start_button = "disabled"
    /\ browse_dir_button = "disabled"
    /\ browse_output_button = "disabled"
    /\ progress_bar = 0
    /\ log_text = <<LogEv("starting", "", "")>>
    /\ after_queue = << >>
    /\ active_workers = 1
    /\ notification = "none"
    /\ config = [source_dir |-> root_dir, output_file |-> output_file,
                 extensions |-> extensions_str]
    /\ runs = 1
    /\ widget_mutators = {"ui"}

Next == Collect

Spec == Init /\ [][Next]_vars

(***************************************************************************)
(* FileCollectorApp: the Tk event loop (thread "ui") and the thread that   *)
(* start_collection_thread starts (thread "worker").                       *)
(***************************************************************************)
\* What the user may have typed into the output file and extensions fields.
FieldOutputFiles == {"", "R/result.txt"}

FieldExtensions == {<< >>, <<"t", "x", "t">>, <<" ", "|", " ">>}

\* The start button left enabled while the worker runs.
DisablePickersOnly ==
    /\ browse_dir_button' = "disabled"
    /\ browse_output_button' = "disabled"
    /\ UNCHANGED start_button

\* lines 266-268
DisableControls ==
    /\ start_button' = "disabled"
    /\ browse_dir_button' = "disabled"
    /\ browse_output_button' = "disabled"

\* lines 237-276, the command of start_button: a disabled button runs no command.
\* The three values are what the entry fields hold.  The directories of all the
\* candidate output files exist, so lines 253-261 do nothing.
StartCollectionThread ==
    /\ start_button = "normal"
    /\ runs < MaxRuns
    /\ \E root \in RootDirs, out \in FieldOutputFiles, ext \in FieldExtensions :
          IF ~IsDir(root)
          THEN /\ notification' = "invalid_directory"
               /\ UNCHANGED <<argvars, scanvars, processed_files, filevars, pc, outvars,
                              disk_at_start, faultvars, callbackvars, start_button,
                              browse_dir_button, browse_output_button, after_queue,
                              active_workers, config, runs>>
          ELSE IF out = ""
          THEN /\ notification' = "no_output_file"
               /\ UNCHANGED <<argvars, scanvars, processed_files, filevars, pc, outvars,
                              disk_at_start, faultvars, callbackvars, start_button,
                              browse_dir_button, browse_output_button, after_queue,
                              active_workers, config, runs>>
          ELSE IF Strip(ext) = << >>
          THEN /\ notification' = "no_extension"
               /\ UNCHANGED <<argvars, scanvars, processed_files, filevars, pc, outvars,
                              disk_at_start, faultvars, callbackvars, start_button,
                              browse_dir_button, browse_output_button, after_queue,
                              active_workers, config, runs>>
          ELSE /\ config' = [source_dir |-> root, output_file |-> out, extensions |-> ext]
               /\ log_text' = <<LogEv("starting", "", "")>>
               /\ DisableControls
               /\ progress_bar' = 0
               /\ widget_mutators' = widget_mutators \cup {"ui"}
               /\ root_dir' = root
               /\ output_file' = out
               /\ extensions_str' = ext
               /\ active_workers' = active_workers + 1
               /\ pc' = "check_root"
               /\ target_extensions' = << >>
               /\ files_to_process' = << >>
               /\ total_files' = 0
               /\ processed_files' = 0
               /\ content' = << >>
               /\ fallback' = FALSE
               /\ caught' = NoCaught
               /\ written' = << >>
               /\ events' = << >>
               /\ disk_at_start' = disk
               /\ notification' = "none"
               /\ runs' = runs + 1
               /\ UNCHANGED <<outfile_open, disk, faultvars, after_queue>>

\* An exception that leaves collect_files_content_gui: one raised outside the try
\* block of lines 57-96, here by the pre-scan of lines 42-46.
Fault ==
    /\ pc = "prescan"
    /\ \E detail \in FaultDetails : caught' = [handler |-> "task", detail |-> detail]
    /\ pc' = "raised"
    /\ UNCHANGED <<argvars, scanvars, processed_files, content, fallback, outvars,
                   disk_at_start, faultvars, callbackvars, shellvars>>

\* lines 281-283
TaskExcept ==
    /\ pc = "raised"
    /\ Callbacks("worker", <<LogEv("unexpected", "", caught.detail), ProgressEv(-1)>>)
    /\ pc' = "returned"
    /\ UNCHANGED <<argvars, scanvars, processed_files, filevars, outvars, disk_at_start,
                   faultvars, shellvars>>

\* lines 284-286; the thread ends
TaskFinally ==
    /\ pc = "returned"
    /\ after_queue' = Append(after_queue, "_enable_controls")
    /\ active_workers' = active_workers - 1
    /\ pc' = "idle"
    /\ UNCHANGED <<argvars, scanvars, processed_files, filevars, outvars, disk_at_start,
                   faultvars, callbackvars, start_button, browse_dir_button,
                   browse_output_button, notification, config, runs>>

\* line 295: "Error" in self.log_text.get(1.0, tk.END)
LogHasError == \E i \in 1..Len(log_text) : LineHasError(log_text[i])

\* lines 288-296, run by the event loop for a callback posted with after(0, ...)
EnableControls ==
    /\ after_queue # << >>
    /\ Head(after_queue) = "_enable_controls"
    /\ after_queue' = Tail(after_queue)
    /\ start_button' = "normal"
    /\ browse_dir_button' = "normal"
    /\ browse_output_button' = "normal"
    /\ notification' =
          IF progress_bar = 100 THEN "done"
          ELSE IF LogHasError THEN "failed"
          ELSE notification
    /\ UNCHANGED <<argvars, scanvars, processed_files, filevars, pc, outvars, disk_at_start,
                   faultvars, callbackvars, active_workers, config, runs>>

\* The shell as __init__ leaves it (lines 99-163), over any of the initial disks.
InitApp ==
    /\ root_dir = "R"
    /\ output_file = "R/result.txt"
    /\ extensions_str = <<"c", "s">>
    /\ disk \in InitialDisks
    /\ disk_at_start = disk
    /\ pc = "idle"
    /\ Entering
    /\ start_button = "normal"
    /\ browse_dir_button = "normal"
    /\ browse_output_button = "normal"
    /\ progress_bar = 0
    /\ log_text = << >>
    /\ after_queue = << >>
    /\ active_workers = 0
    /\ notification = "none"
    /\ config = [source_dir |-> root_dir, output_file |-> output_file,
                 extensions |-> extensions_str]
    /\ runs = 0
    /\ widget_mutators = {}

NextApp ==
    \/ StartCollectionThread
    \/ Collect
    \/ Fault
    \/ TaskExcept
    \/ TaskFinally
    \/ EnableControls

SpecApp == InitApp /\ [][NextApp]_vars

(***************************************************************************)
(* The progress value of line 61 alone, for every file count up to         *)
(* MaxTotal: the loop of lines 59-62 with the file's processing left out.  *)
(***************************************************************************)
InitProgress ==
    /\ root_dir = "R"
    /\ output_file = "out/code.txt"
    /\ extensions_str = <<"t", "x", "t">>
    /\ disk \in {d \in InitialDisks : d["R/result.txt"] = NoFile}
    /\ disk_at_start = disk
    /\ pc = "loop"
    /\ target_extensions = TargetExtensions(extensions_str)
    /\ files_to_process = << >>
    /\ total_files \in 1..MaxTotal
    /\ processed_files = 0
    /\ content = << >>
    /\ fallback = FALSE
    /\ caught = NoCaught
    /\ outfile_open = TRUE
    /\ written = << >>
    /\ write_faults = 0
    /\ read_faults = 0
    /\ events = << >>
    /\ start_button = "disabled"
    /\ browse_dir_button = "disabled"
    /\ browse_output_button = "disabled"
    /\ progress_bar = 0
    /\ log_text = <<LogEv("starting", "", "")>>
    /\ after_queue = << >>
    /\ active_workers = 1
    /\ notification = "none"
    /\ config = [source_dir |-> root_dir, output_file |-> output_file,
                 extensions |-> extensions_str]
    /\ runs = 1
    /\ widget_mutators = {"ui"}

\* lines 60-62
ProgressStep ==
    /\ pc = "loop"
    /\ processed_files < total_files
    /\ processed_files' = processed_files + 1
    /\ Callbacks("worker", <<ProgressEv(ProgressValue(processed_files + 1, total_files))>>)
    /\ UNCHANGED <<argvars, scanvars, filevars, pc, outvars, disk_at_start, faultvars,
                   shellvars>>

SpecProgress == InitProgress /\ [][ProgressStep]_vars

(***************************************************************************)
(* Properties.                                                             *)
(***************************************************************************)
Progress == SelectSeq(events, IsProgress)

Returned == pc = "returned"

Logged(kind) == \E j \in 1..Len(events) : events[j].ev = "log" /\ events[j].kind = kind

NoWriteFailed == \A j \in 1..Len(events) : events[j].ev # "write_failed"

ReadFailed(rel) ==
    \E j \in 1..Len(events) :
        events[j].ev = "read" /\ events[j].rel = rel /\ events[j].kind = "failed"

DecodeFailed(rel) ==
    \E j \in 1..Len(events) :
        events[j].ev = "read" /\ events[j].rel = rel /\ events[j].kind = "decode_error"

\* The entry of file f as the output format gives it, from the file's content
\* when the run started and from how its reads went.
ExpectedEntry(f) ==
    <<Piece("header", f.rel, "")>>
    \o (IF ReadFailed(f.rel)
        THEN <<Piece(IF DecodeFailed(f.rel) THEN "error_read" ELSE "error_process",
                     f.rel, PermissionDenied)>>
        ELSE IF DecodeFailed(f.rel)
        THEN disk_at_start[f.path] \o <<Piece("warning", "", "")>>
        ELSE disk_at_start[f.path])
    \o <<Piece("sep", "", "")>>

RECURSIVE ExpectedOutput(_)
ExpectedOutput(files) ==
    IF files = << >> THEN << >>
    ELSE ExpectedEntry(Head(files)) \o ExpectedOutput(Tail(files))

\* C1: when the run reaches the write phase and no write fails, the output file
\* is exactly one entry per file of files_to_process, in order: header, the
\* file's content as it was when the run started (with the warning line after a
\* decode failure) or an error marker, and the separator.
C1_OutputIsEntries ==
    (Returned /\ Logged("success") /\ NoWriteFailed)
        => disk[output_file] = ExpectedOutput(files_to_process)

ConfigFailed ==
    /\ \E j \in 1..Len(events) : events[j].ev = "log"
    /\ Len(Progress) = 1
    /\ Progress[1].n = -1
    /\ disk = disk_at_start

\* C2 as stated: a missing root directory, an empty suffix set or an output file
\* that cannot be opened makes the run fail with the sentinel as its only
\* progress event and the disk unchanged.
C2_AnyConfigErrorFails ==
    (Returned /\ (~IsDir(root_dir) \/ Extensions(extensions_str) = << >>
                  \/ output_file \in Unwritable))
        => ConfigFailed

\* C2, amended: the output file counts only when a file matches; with no
\* matching file it is never opened and the run reports 100.
C2_ConfigErrorFails ==
    /\ (Returned /\ (~IsDir(root_dir) \/ Extensions(extensions_str) = << >>
                     \/ (output_file \in Unwritable /\ files_to_process # << >>)))
           => ConfigFailed
    /\ (Returned /\ IsDir(root_dir) /\ Extensions(extensions_str) # << >>
                 /\ output_file \in Unwritable /\ files_to_process = << >>)
           => (Len(Progress) = 1 /\ Progress[1].n = 100 /\ disk = disk_at_start)

C2_Witness ==
    /\ Returned
    /\ IsDir(root_dir)
    /\ output_file \in Unwritable
    /\ Len(files_to_process) >= 2
    /\ Len(Progress) = 1
    /\ Progress[1].n = -1

\* The per-file progress events: all but the event that ends the run.
PerFile(i) == Progress[i].n

\* C3 as stated: the i-th per-file progress event is i * 100 / total rounded to
\* the nearest integer (either neighbour when it lies half way).
C3_Rounded ==
    \A i \in 1..processed_files :
        /\ 2 * (PerFile(i) * total_files - 100 * i) <= total_files
        /\ 2 * (100 * i - PerFile(i) * total_files) <= total_files

\* C3, amended: the i-th per-file progress event is i * 100 / total truncated,
\* or one less where i * 100 / total is a whole number that the double product
\* falls short of; the event of the last file is 100.
C3_Truncated ==
    \A i \in 1..processed_files :
        /\ (100 * i) % total_files # 0 => PerFile(i) = (100 * i) \div total_files
        /\ (100 * i) % total_files = 0 =>
               PerFile(i) \in {(100 * i) \div total_files - 1, (100 * i) \div total_files}
        /\ i = total_files => PerFile(i) = 100

C3_Witness ==
    /\ total_files = 50
    /\ processed_files = 50
    /\ PerFile(29) = 57
    /\ PerFile(33) = 66
    /\ PerFile(50) = 100

\* Where in events the things of file i happen.
IsWriteOf(e, i, kinds) ==
    e.ev \in {"write", "write_failed"} /\ e.kind \in kinds /\ e.rel = files_to_process[i].rel

IsWritten(e, i, kinds) ==
    e.ev = "write" /\ e.kind \in kinds /\ e.rel = files_to_process[i].rel

IsProcessingLog(e, i) ==
    e.ev = "log" /\ e.kind = "processing" /\ e.rel = files_to_process[i].rel

\* The place in events of the i-th progress event.
ProgressAt(i) ==
    CHOOSE j \in 1..Len(events) :
        IsProgress(events[j]) /\ Len(SelectSeq(SubSeq(events, 1, j), IsProgress)) = i

BodyKinds == {"content", "warning", "error_read", "error_process"}

\* C4 as stated: the progress event of file i comes only after the entry of
\* file i is completely written (header, content or marker, separator).
C4_ProgressAfterEntry ==
    \A i \in 1..processed_files :
        \E j \in 1..(ProgressAt(i) - 1) : IsWritten(events[j], i, {"sep"})

\* C4, amended: the progress event of file i comes first, after the separator
\* of file i - 1; then the header of file i is written, then "Processing" is
\* logged, then the content, warning or marker is written, then the separator.
C4_EventOrder ==
    \A i \in 1..processed_files :
        /\ i > 1 => \E j \in 1..(ProgressAt(i) - 1) : IsWritten(events[j], i - 1, {"sep"})
        /\ \A k \in 1..Len(events) :
              /\ IsWriteOf(events[k], i, {"header"}) => k > ProgressAt(i)
              /\ IsProcessingLog(events[k], i) =>
                     (k > 1 /\ IsWritten(events[k - 1], i, {"header"}))
              /\ (IsWriteOf(events[k], i, BodyKinds)
                  \/ (events[k].ev = "read" /\ events[k].rel = files_to_process[i].rel)) =>
                     \E j \in 1..(k - 1) : IsProcessingLog(events[j], i)
              /\ IsWriteOf(events[k], i, {"sep"}) =>
                     \E j \in 1..(k - 1) : IsWritten(events[j], i, BodyKinds)
              /\ (i < processed_files /\ IsWriteOf(events[k], i, {"header", "sep"} \cup BodyKinds))
                     => k < ProgressAt(i + 1)

C4_Witness ==
    /\ Returned
    /\ Logged("success")
    /\ total_files = 3
    /\ \E k \in 1..Len(events) : IsWritten(events[k], 3, {"warning"})

\* C5: every progress event is in 0..100 or the sentinel; the events other than
\* the sentinel never decrease; the sentinel is the last event of its run; a run
\* without the sentinel ends with 100, and with no file to process 100 is its
\* only event.
C5_ProgressEvents ==
    /\ \A i \in 1..Len(Progress) : Progress[i].n \in (0..100) \cup {-1}
    /\ \A i, j \in 1..Len(Progress) :
          (i < j /\ Progress[i].n # -1 /\ Progress[j].n # -1) => Progress[i].n <= Progress[j].n
    /\ \A i \in 1..Len(Progress) : Progress[i].n = -1 => i = Len(Progress)
    /\ Returned =>
          /\ Progress # << >>
          /\ Progress[Len(Progress)].n \in {100, -1}
          /\ (IsDir(root_dir) /\ Extensions(extensions_str) # << >> /\ total_files = 0)
                 => (Len(Progress) = 1 /\ Progress[1].n = 100)

C5_Witness ==
    /\ Returned
    /\ total_files = 3
    /\ Len(Progress) = 4
    /\ Progress[2].n = 66
    /\ Progress[4].n = 100

\* C6: a write to the output that fails, whichever write it is, aborts the run:
\* nothing is written and no file is begun after it, and the run ends with the
\* error logged and the sentinel as its last progress event.
C6_WriteFailureAborts ==
    \A j \in 1..Len(events) :
        events[j].ev = "write_failed" =>
            /\ \A k \in (j + 1)..Len(events) :
                  /\ events[k].ev # "write"
                  /\ IsProgress(events[k]) => events[k].n = -1
            /\ Returned => (Logged("write_error") /\ Progress[Len(Progress)].n = -1)

\* C7: log_text and progress_bar are changed by the event loop's thread only.
C7_WidgetsOnUiThread == widget_mutators \subseteq {"ui"}

\* C8: at most one worker is active, and while one is (from its start until its
\* call of the collector has ended) the start button and both pickers are
\* disabled; the output file is open only in that worker.
C8_SingleWorker ==
    /\ active_workers <= 1
    /\ active_workers = 1 =>
          /\ start_button = "disabled"
          /\ browse_dir_button = "disabled"
          /\ browse_output_button = "disabled"
    /\ pc \notin {"idle"} => active_workers = 1
    /\ outfile_open => active_workers = 1

C8_Witness ==
    /\ runs = 2
    /\ active_workers = 1
    /\ outfile_open
    /\ processed_files = 2

\* A run has ended and the event loop has run _enable_controls for it.
RunOver ==
    /\ runs >= 1
    /\ pc = "idle"
    /\ after_queue = << >>
    /\ notification \notin {"invalid_directory", "no_output_file", "no_extension"}

\* C9: every run ends with a notification: the success one when the last
\* progress reported is 100, the failure one for every other run.
C9_EveryRunNotified ==
    RunOver =>
        /\ notification \in {"done", "failed"}
        /\ notification = "done" <=> LastProgress(events, 0) = 100

\* C10: after the run every file the pre-scan selected holds what it held before.
C10_InputsUnchanged ==
    Returned =>
        \A i \in 1..Len(files_to_process) :
            disk[files_to_process[i].path] = disk_at_start[files_to_process[i].path]
====
